---- MODULE Spec2Model ----
(***************************************************************************)
(* Model of the todo application's persistence service (TodoService, over  *)
(* one localStorage entry) and of the useTodos hook that wraps it.         *)
(* Every async method is cut at its awaits: one                            *)
(* action per synchronous segment, so that calls of different callers can  *)
(* interleave exactly where the JavaScript run loop lets them.             *)
(*                                                                         *)
(* Text is a sequence of one-character strings, " " the whitespace         *)
(* character.  A JavaScript object is a function from field names to       *)
(* values; an optional field that is absent is absent from the DOMAIN.     *)
(* A Date is its integer time value; its ISO string is a distinct value.   *)
(***************************************************************************)
EXTENDS Integers, Sequences, FiniteSets, TLC

VARIABLES
    storage,    \* the localStorage entry under STORAGE_KEY
    calls,      \* per caller: the service call it has in flight or finished
    now,        \* the last value the clock returned
    nextId,     \* the next value crypto.randomUUID() returns
    budget,     \* how many more calls the callers make
    faults,     \* the accesses to localStorage that throw
    hooks,      \* per useTodos instance: its todos, loading and error state
    ops         \* per caller: the useTodos operation it has in flight or finished

vars == <<storage, calls, now, nextId, budget, faults, hooks, ops>>

\* the state of the useTodos instances and of their operations
adapterVars == <<hooks, ops>>

----------------------------------------------------------------------------
(* Bounds of the model. *)

\* the largest clock value
MaxClock == 2

\* how many ids crypto.randomUUID() can hand out
MaxIds == 2

\* how many calls a caller makes, one after the other
MaxCalls == 4

\* how many calls two callers make in all when their calls may overlap
MaxOverlappingCalls == 3

\* the callers that may have a service call in flight
Callers == {1, 2}

\* the ids a caller may pass to update, toggle and delete
IdArgs == 1..MaxIds

----------------------------------------------------------------------------
(* Text. *)

IsSpace(ch) == ch = " "

RECURSIVE TrimStart(_)
TrimStart(s) ==
    IF s = <<>> THEN s
    ELSE IF IsSpace(Head(s)) THEN TrimStart(Tail(s)) ELSE s

RECURSIVE TrimEnd(_)
TrimEnd(s) ==
    IF s = <<>> THEN s
    ELSE IF IsSpace(s[Len(s)]) THEN TrimEnd(SubSeq(s, 1, Len(s) - 1)) ELSE s

\* String.prototype.trim
trim(s) == TrimEnd(TrimStart(s))

\* the object literal {}
EmptyObject == [f \in {} |-> TRUE]

\* the values of CreateTodoData the callers pass
CreateInputs ==
    { [title |-> <<>>],
      [title |-> <<" ", " ">>],
      [title |-> <<" ", "a">>],
      [title |-> <<"a">>, description |-> <<" ">>],
      [title |-> <<"B", " ">>, description |-> <<" ", "a", " ">>] }

\* the values of UpdateTodoData the callers pass
UpdateInputs ==
    { EmptyObject,
      [completed |-> TRUE],
      [title |-> <<" ">>, description |-> <<"A">>] }

----------------------------------------------------------------------------
(* Dates and the stored form. *)

\* Date.prototype.toISOString
toISOString(d) == [iso |-> d]

\* new Date(isoString)
parseDate(s) == s.iso

\* the clock values new Date() may return: time does not run backwards, and
\* two reads within one millisecond return the same value
ClockReads == {t \in {now, now + 1} : t <= MaxClock}

fromStorage_createdAtFromUpdatedAt(stored) ==
    [stored EXCEPT !.createdAt = parseDate(stored.updatedAt),
                   !.updatedAt = parseDate(stored.updatedAt)]

\* { ...stored, createdAt: new Date(stored.createdAt), updatedAt: ... }
fromStorage(stored) ==
    [stored EXCEPT !.createdAt = parseDate(stored.createdAt),
                   !.updatedAt = parseDate(stored.updatedAt)]

toStorage_clockFallback(todo) ==
    [todo EXCEPT !.createdAt = toISOString(now),
                 !.updatedAt = toISOString(now)]

\* the fallback `new Date()` of toStorage is for a field that is no Date; every
\* record of the service comes from createTodoObject or fromStorage, whose
\* date fields are Dates
toStorage(todo) ==
    [todo EXCEPT !.createdAt = toISOString(todo.createdAt),
                 !.updatedAt = toISOString(todo.updatedAt)]

\* the shapes of the entry: no entry, a JSON array of stored records, and
\* text that JSON.parse rejects
AbsentEntry == [kind |-> "absent"]
JsonEntry(data) == [kind |-> "json", data |-> data]
CorruptEntry == [kind |-> "corrupt"]

\* getAllTodos, given what getItem returned: no entry reads as [], an entry is
\* parsed and converted, and an entry that does not parse reads as []
getAllTodos(entry) ==
    IF entry.kind \in {"absent", "corrupt"} THEN <<>>
    ELSE [i \in 1..Len(entry.data) |-> fromStorage(entry.data[i])]

allTodos_ignoresFault == getAllTodos(storage)

\* getAllTodos when it is called: a getItem that throws reads as [] too
allTodos ==
    IF "getItem" \in faults THEN <<>> ELSE getAllTodos(storage)

savedEntry_keepsWhenEmpty(todos) ==
    IF todos = <<>> THEN storage
    ELSE JsonEntry([i \in 1..Len(todos) |-> toStorage(todos[i])])

\* saveTodos: the entry that JSON.stringify(todos.map(toStorage)) writes
savedEntry(todos) == JsonEntry([i \in 1..Len(todos) |-> toStorage(todos[i])])

----------------------------------------------------------------------------
(* The service's helpers. *)

TitleMissing_noTrim(data) ==
    \/ "title" \notin DOMAIN data
    \/ data.title = <<>>

\* !data.title?.trim()
TitleMissing(data) ==
    \/ "title" \notin DOMAIN data
    \/ trim(data.title) = <<>>

\* data.description?.trim() || ''
DescriptionOf(data) ==
    IF "description" \in DOMAIN data THEN trim(data.description) ELSE <<>>

createTodoObject_untrimmed(data, id, t) ==
    [id |-> id, title |-> data.title, description |-> DescriptionOf(data),
     completed |-> FALSE, createdAt |-> t, updatedAt |-> t]

createTodoObject_idFromClock(data, id, t) ==
    [id |-> t, title |-> trim(data.title), description |-> DescriptionOf(data),
     completed |-> FALSE, createdAt |-> t, updatedAt |-> t]

createTodoObject(data, id, t) ==
    [id |-> id, title |-> trim(data.title), description |-> DescriptionOf(data),
     completed |-> FALSE, createdAt |-> t, updatedAt |-> t]

----------------------------------------------------------------------------
(* Array helpers. *)

\* Array.prototype.filter with the predicate todo => todo.id !== id
withoutId_keepsOnlyId(todos, id) == SelectSeq(todos, LAMBDA t : t.id = id)

withoutId_dropsAll(todos, id) == <<>>

withoutId(todos, id) == SelectSeq(todos, LAMBDA t : t.id # id)

onlyCompleted_all(todos) == todos

\* todos.filter(todo => todo.completed)
onlyCompleted(todos) == SelectSeq(todos, LAMBDA t : t.completed)

onlyActive_dropsFirst(todos) ==
    IF todos = <<>> THEN todos ELSE SelectSeq(Tail(todos), LAMBDA t : ~t.completed)

\* todos.filter(todo => !todo.completed)
onlyActive(todos) == SelectSeq(todos, LAMBDA t : ~t.completed)

findIndex_assigns(todos, id) == IF todos = <<>> THEN 0 ELSE 1

\* todos.findIndex(todo => todo.id === id), 1-based; 0 stands for -1
findIndex(todos, id) ==
    IF \E i \in 1..Len(todos) : todos[i].id = id
    THEN CHOOSE i \in 1..Len(todos) :
             /\ todos[i].id = id
             /\ \A j \in 1..(i - 1) : todos[j].id # id
    ELSE 0

merged_existingWins(todo, updates, t) ==
    [f \in DOMAIN todo \cup DOMAIN updates |->
        IF f = "updatedAt" THEN t
        ELSE IF f \in DOMAIN todo THEN todo[f]
        ELSE updates[f]]

merged_epoch(todo, updates, t) ==
    [f \in DOMAIN todo \cup DOMAIN updates |->
        IF f = "updatedAt" THEN 0
        ELSE IF f \in DOMAIN updates THEN updates[f]
        ELSE todo[f]]

\* { ...todos[todoIndex], ...updates, updatedAt: new Date() }
merged(todo, updates, t) ==
    [f \in DOMAIN todo \cup DOMAIN updates |->
        IF f = "updatedAt" THEN t
        ELSE IF f \in DOMAIN updates THEN updates[f]
        ELSE todo[f]]

----------------------------------------------------------------------------
(* A caller's call.  op, id, data, todos and newTodo are the call's           *)
(* arguments and locals; pc is the segment that runs next.  The other fields *)
(* observe the call: the entry when it was invoked (pre),                    *)
(* how often it read and wrote the entry, how it settled (result), and, when *)
(* the caller's previous call was a toggleTodo that returned, that call's id *)
(* and the entry when it was invoked (prev); saved holds the collection the   *)
(* call handed to saveTodos when that write succeeded.                       *)

NoResult == [kind |-> "none"]
Returned(v) == [kind |-> "ok", value |-> v]
Thrown(msg) == [kind |-> "error", message |-> msg]

IdleCall ==
    [op |-> "none", pc |-> "idle", id |-> 0, data |-> EmptyObject,
     todos |-> <<>>, newTodo |-> EmptyObject,
     pre |-> AbsentEntry, reads |-> 0, writes |-> 0,
     result |-> NoResult, prev |-> <<>>, saved |-> <<>>]

\* caller c has no call in flight and may make one
Free(c) == calls[c].pc \in {"idle", "done"} /\ budget > 0

\* what a caller remembers of the call it made before
Summary(call) ==
    IF call.pc = "done" /\ call.op = "toggle" /\ call.result.kind = "ok"
    THEN <<[id |-> call.id, pre |-> call.pre]>>
    ELSE <<>>

\* a call as it is invoked
Invoked(c, op, id, data) ==
    [IdleCall EXCEPT !.op = op, !.id = id, !.data = data,
                     !.pre = storage, !.prev = Summary(calls[c])]

\* a call as it settles: its locals are gone
Settled(call, result) ==
    [call EXCEPT !.pc = "done", !.result = result,
                 !.todos = <<>>, !.newTodo = EmptyObject]

saveTodos_swallows(c, call, todos, value) ==
    IF "setItem" \in faults
    THEN /\ calls' = [calls EXCEPT ![c] = Settled(call, Returned(value))]
         /\ UNCHANGED storage
    ELSE /\ storage' = savedEntry(todos)
         /\ calls' = [calls EXCEPT ![c] =
               Settled([call EXCEPT !.writes = @ + 1, !.saved = <<todos>>],
                       Returned(value))]

\* saveTodos(todos) at the end of caller c's call, which returns value: a
\* setItem that throws makes the call throw, and the entry is not written
saveTodos(c, call, todos, value) ==
    IF "setItem" \in faults
    THEN /\ calls' = [calls EXCEPT ![c] =
               Settled(call, Thrown("Failed to save todos"))]
         /\ UNCHANGED storage
    ELSE /\ storage' = savedEntry(todos)
         /\ calls' = [calls EXCEPT ![c] =
               Settled([call EXCEPT !.writes = @ + 1, !.saved = <<todos>>],
                       Returned(value))]

\* error: null, and filters: undefined; a message and given filters are
\* sequences of one element
NoError == <<>>
NoFilters == <<>>

\* a useTodos instance as it is constructed: no todos, loading, no error;
\* mounted tells that its effect has run
NewHook == [todos |-> <<>>, loading |-> TRUE, error |-> NoError,
            filters |-> NoFilters, mounted |-> FALSE]

\* the useTodos instances
Instances == {1, 2}

\* a caller with no useTodos operation.  op is the operation, hook the
\* instance it was invoked on, pc the segment that runs next and loaded what
\* its loadTodos read.  The other fields observe the operation: loading and
\* error of the instance as it was invoked (from), the steps it has taken
\* and how it settled (result).
IdleOp ==
    [op |-> "none", pc |-> "idle", hook |-> 0, loaded |-> <<>>,
     from |-> [loading |-> TRUE, error |-> NoError],
     steps |-> <<>>, result |-> NoResult]

Init ==
    /\ storage = AbsentEntry
    /\ calls = [c \in Callers |-> IdleCall]
    /\ now = 0
    /\ nextId = 1
    /\ budget = MaxCalls
    /\ faults = {}
    /\ hooks = [i \in Instances |-> NewHook]
    /\ ops = [c \in Callers |-> IdleOp]

----------------------------------------------------------------------------
(* createTodo *)

\* up to the first await: the validation, createTodoObject, and the read of
\* getAllTodos
createTodo_begin(c, data) ==
    /\ Free(c)
    /\ budget' = budget - 1
    /\ IF TitleMissing(data)
       THEN /\ calls' = [calls EXCEPT ![c] =
                  Settled(Invoked(c, "create", 0, data),
                          Thrown("Todo title is required"))]
            /\ UNCHANGED <<storage, now, nextId, faults>>
       ELSE /\ nextId <= MaxIds
            /\ \E t \in ClockReads :
                 /\ now' = t
                 /\ calls' = [calls EXCEPT ![c] =
                       [Invoked(c, "create", 0, data) EXCEPT
                           !.pc = "create_push",
                           !.newTodo = createTodoObject(data, nextId, t),
                           !.todos = allTodos,
                           !.reads = 1]]
            /\ nextId' = nextId + 1
            /\ UNCHANGED <<storage, faults>>

\* createTodo called by a caller of the service
createTodo_call(c, data) ==
    /\ createTodo_begin(c, data)
    /\ UNCHANGED adapterVars

pushed_unshift(todos, todo) == <<todo>> \o todos

pushed_onlyNew(todos, todo) == <<todo>>

\* todos.push(newTodo)
pushed(todos, todo) == Append(todos, todo)

\* after the read: the push and the write of saveTodos; what follows the
\* write only returns newTodo
createTodo_push(c) ==
    /\ calls[c].pc = "create_push"
    /\ LET todos == pushed(calls[c].todos, calls[c].newTodo)
       IN  saveTodos(c, calls[c], todos, calls[c].newTodo)
    /\ UNCHANGED <<now, nextId, budget, faults, hooks, ops>>

----------------------------------------------------------------------------
(* updateTodo *)

\* up to the first await: the read of getAllTodos
updateTodo_begin(c, id, updates) ==
    /\ Free(c)
    /\ budget' = budget - 1
    /\ calls' = [calls EXCEPT ![c] =
          [Invoked(c, "update", id, updates) EXCEPT
              !.pc = "update_merge",
              !.todos = allTodos,
              !.reads = 1]]
    /\ UNCHANGED <<storage, now, nextId, faults>>

\* updateTodo called by a caller of the service
updateTodo_call(c, id, updates) ==
    /\ updateTodo_begin(c, id, updates)
    /\ UNCHANGED adapterVars

\* after the read: findIndex, the merge and the write of saveTodos; what
\* follows the write only returns updatedTodo.  toggleTodo's call of
\* updateTodo continues here too.
updateTodo_merge(c) ==
    /\ calls[c].pc = "update_merge"
    /\ LET todoIndex == findIndex(calls[c].todos, calls[c].id)
       IN  IF todoIndex = 0
           THEN /\ calls' = [calls EXCEPT ![c] =
                      Settled(calls[c], Thrown("Todo not found"))]
                /\ UNCHANGED <<storage, now>>
           ELSE \E t \in ClockReads :
                  LET updatedTodo ==
                          merged(calls[c].todos[todoIndex], calls[c].data, t)
                      todos == [calls[c].todos EXCEPT ![todoIndex] = updatedTodo]
                  IN  /\ now' = t
                      /\ saveTodos(c, calls[c], todos, updatedTodo)
    /\ UNCHANGED <<nextId, budget, faults, hooks, ops>>

----------------------------------------------------------------------------
(* toggleTodo *)

toggled_completes(todo) == [completed |-> TRUE]

\* { completed: !todo.completed }
toggled(todo) == [completed |-> ~todo.completed]

\* up to the first await: the read of getAllTodos
toggleTodo_begin(c, id) ==
    /\ Free(c)
    /\ budget' = budget - 1
    /\ calls' = [calls EXCEPT ![c] =
          [Invoked(c, "toggle", id, EmptyObject) EXCEPT
              !.pc = "toggle_find",
              !.todos = allTodos,
              !.reads = 1]]
    /\ UNCHANGED <<storage, now, nextId, faults>>

\* toggleTodo called by a caller of the service
toggleTodo_call(c, id) ==
    /\ toggleTodo_begin(c, id)
    /\ UNCHANGED adapterVars

\* after the read: find, and the call of updateTodo(id, {completed: !...}) up
\* to its first await, which reads the entry again
toggleTodo_find(c) ==
    /\ calls[c].pc = "toggle_find"
    /\ LET todoIndex == findIndex(calls[c].todos, calls[c].id)
       IN  IF todoIndex = 0
           THEN calls' = [calls EXCEPT ![c] =
                    Settled(calls[c], Thrown("Todo not found"))]
           ELSE calls' = [calls EXCEPT ![c] =
                    [calls[c] EXCEPT
                        !.pc = "update_merge",
                        !.data = toggled(calls[c].todos[todoIndex]),
                        !.todos = allTodos,
                        !.reads = @ + 1]]
    /\ UNCHANGED <<storage, now, nextId, budget, faults, hooks, ops>>

----------------------------------------------------------------------------
(* deleteTodo *)

\* up to the first await: the read of getAllTodos
deleteTodo_begin(c, id) ==
    /\ Free(c)
    /\ budget' = budget - 1
    /\ calls' = [calls EXCEPT ![c] =
          [Invoked(c, "delete", id, EmptyObject) EXCEPT
              !.pc = "delete_filter",
              !.todos = allTodos,
              !.reads = 1]]
    /\ UNCHANGED <<storage, now, nextId, faults>>

\* deleteTodo called by a caller of the service
deleteTodo_call(c, id) ==
    /\ deleteTodo_begin(c, id)
    /\ UNCHANGED adapterVars

\* after the read: the filter, and the write unless nothing was removed
deleteTodo_filter(c) ==
    /\ calls[c].pc = "delete_filter"
    /\ LET filteredTodos == withoutId(calls[c].todos, calls[c].id)
       IN  IF Len(filteredTodos) = Len(calls[c].todos)
           THEN /\ calls' = [calls EXCEPT ![c] =
                      Settled(calls[c], Returned(FALSE))]
                /\ UNCHANGED storage
           ELSE saveTodos(c, calls[c], filteredTodos, TRUE)
    /\ UNCHANGED <<now, nextId, budget, faults, hooks, ops>>

----------------------------------------------------------------------------
(* deleteCompleted *)

\* up to the first await: the read of getAllTodos
deleteCompleted_begin(c) ==
    /\ Free(c)
    /\ budget' = budget - 1
    /\ calls' = [calls EXCEPT ![c] =
          [Invoked(c, "deleteCompleted", 0, EmptyObject) EXCEPT
              !.pc = "completed_filter",
              !.todos = allTodos,
              !.reads = 1]]
    /\ UNCHANGED <<storage, now, nextId, faults>>

\* deleteCompleted called by a caller of the service
deleteCompleted_call(c) ==
    /\ deleteCompleted_begin(c)
    /\ UNCHANGED adapterVars

\* after the read: the count, the filter and the write
deleteCompleted_filter(c) ==
    /\ calls[c].pc = "completed_filter"
    /\ LET completedCount == Len(onlyCompleted(calls[c].todos))
           activeTodos == onlyActive(calls[c].todos)
       IN  saveTodos(c, calls[c], activeTodos, completedCount)
    /\ UNCHANGED <<now, nextId, budget, faults, hooks, ops>>

----------------------------------------------------------------------------
(* getAllTodos, getFilteredTodos and getStats *)

\* getAllTodos has no await: it reads and settles when it is called
getAllTodos_call(c) ==
    /\ Free(c)
    /\ budget' = budget - 1
    /\ calls' = [calls EXCEPT ![c] =
          Settled([Invoked(c, "getAll", 0, EmptyObject) EXCEPT !.reads = 1],
                  Returned(allTodos))]
    /\ UNCHANGED <<storage, now, nextId, faults, hooks, ops>>

\* String.prototype.toLowerCase
toLowerCase(s) ==
    [i \in 1..Len(s) |->
        IF s[i] = "A" THEN "a" ELSE IF s[i] = "B" THEN "b" ELSE s[i]]

includes_startsWith(s, q) ==
    Len(q) <= Len(s) /\ SubSeq(s, 1, Len(q)) = q

\* String.prototype.includes
includes(s, q) ==
    \E i \in 0..(Len(s) - Len(q)) : SubSeq(s, i + 1, i + Len(q)) = q

\* the predicate getFilteredTodos filters by; an empty searchQuery is falsy
matches(todo, filters) ==
    IF "completed" \in DOMAIN filters /\ todo.completed # filters.completed
    THEN FALSE
    ELSE IF "searchQuery" \in DOMAIN filters /\ filters.searchQuery # <<>>
    THEN LET query == toLowerCase(filters.searchQuery)
             matchesTitle == includes(toLowerCase(todo.title), query)
             matchesDescription ==
                 includes(toLowerCase(todo.description), query)
         IN  matchesTitle \/ matchesDescription
    ELSE TRUE

\* the predicate throws a TypeError on a record that has no description, at
\* todo.description.toLowerCase()
matchThrows(todo, filters) ==
    /\ ~("completed" \in DOMAIN filters /\ todo.completed # filters.completed)
    /\ "searchQuery" \in DOMAIN filters
    /\ filters.searchQuery # <<>>
    /\ "description" \notin DOMAIN todo

\* todos.filter(...) of getFilteredTodos, as the promise settles
getFilteredTodos(todos, filters) ==
    IF \E i \in 1..Len(todos) : matchThrows(todos[i], filters)
    THEN Thrown("Cannot read properties of undefined (reading 'toLowerCase')")
    ELSE Returned(SelectSeq(todos, LAMBDA todo : matches(todo, filters)))

\* getFilteredTodos up to its await: the read of getAllTodos
getFilteredTodos_call(c, filters) ==
    /\ Free(c)
    /\ budget' = budget - 1
    /\ calls' = [calls EXCEPT ![c] =
          [Invoked(c, "getFiltered", 0, filters) EXCEPT
              !.pc = "filtered_filter",
              !.todos = allTodos,
              !.reads = 1]]
    /\ UNCHANGED <<storage, now, nextId, faults, hooks, ops>>

\* after the await: the filter
getFilteredTodos_filter(c) ==
    /\ calls[c].pc = "filtered_filter"
    /\ calls' = [calls EXCEPT ![c] =
          Settled(calls[c], getFilteredTodos(calls[c].todos, calls[c].data))]
    /\ UNCHANGED <<storage, now, nextId, budget, faults, hooks, ops>>

getStats_pendingIsTotal(todos) ==
    [total |-> Len(todos), completed |-> Len(onlyCompleted(todos)),
     pending |-> Len(todos)]

\* the object getStats returns for the collection it read
getStats(todos) ==
    LET completed == Len(onlyCompleted(todos))
    IN  [total |-> Len(todos), completed |-> completed,
         pending |-> Len(todos) - completed]

\* getStats up to its await: the read of getAllTodos
getStats_call(c) ==
    /\ Free(c)
    /\ budget' = budget - 1
    /\ calls' = [calls EXCEPT ![c] =
          [Invoked(c, "getStats", 0, EmptyObject) EXCEPT
              !.pc = "stats_count",
              !.todos = allTodos,
              !.reads = 1]]
    /\ UNCHANGED <<storage, now, nextId, faults, hooks, ops>>

\* after the await: the counts
getStats_count(c) ==
    /\ calls[c].pc = "stats_count"
    /\ calls' = [calls EXCEPT ![c] =
          Settled(calls[c], Returned(getStats(calls[c].todos)))]
    /\ UNCHANGED <<storage, now, nextId, budget, faults, hooks, ops>>

----------------------------------------------------------------------------
(* What happens to localStorage from outside the service. *)

\* localStorage starts or stops throwing on getItem, on setItem or on both
\* (storage disabled, quota exceeded)
storageFault(f) ==
    /\ f # faults
    /\ faults' = f
    /\ UNCHANGED <<storage, calls, now, nextId, budget, hooks, ops>>

\* something else writes the entry under STORAGE_KEY
foreignWrite(entry) ==
    /\ storage # entry
    /\ storage' = entry
    /\ UNCHANGED <<calls, now, nextId, budget, faults, hooks, ops>>

----------------------------------------------------------------------------
(* useTodos *)

\* caller c has no operation of a useTodos instance in flight
OpFree(c) == ops[c].pc \in {"idle", "done"}

\* an operation as it is invoked on instance i
InvokedOp(i, op) ==
    [IdleOp EXCEPT !.op = op, !.hook = i,
                   !.from = [loading |-> hooks[i].loading,
                             error |-> hooks[i].error]]

Delegating_lost(i, op) ==
    [InvokedOp(i, op) EXCEPT !.pc = "lost", !.steps = <<"clear", "delegate">>]

\* a mutation wrapper up to its await: setError(null), and the service is
\* called
Delegating(i, op) ==
    [InvokedOp(i, op) EXCEPT !.pc = "service", !.steps = <<"clear", "delegate">>]

LoadingHook_notLoading(hook) == [hook EXCEPT !.error = NoError]

\* setLoading(true); setError(null)
LoadingHook(hook) == [hook EXCEPT !.loading = TRUE, !.error = NoError]

Reloading_readsNothing(op) ==
    [op EXCEPT !.pc = "reload", !.loaded = <<>>,
               !.steps = Append(@, "reload")]

\* loadTodos up to its await, called in operation op: the state it sets and
\* the read of getAllTodos, which getFilteredTodos makes as well
Reloading(op) ==
    [op EXCEPT !.pc = "reload", !.loaded = allTodos,
               !.steps = Append(@, "reload")]

Recorded_dropsMessage(hook, message) == hook

Cached_keepsOld(hook, loadedTodos) == hook

Cached_empties(hook, loadedTodos) == [hook EXCEPT !.todos = <<>>]

\* setTodos(loadedTodos)
Cached(hook, loadedTodos) == [hook EXCEPT !.todos = loadedTodos]

\* setError(err.message)
Recorded(hook, message) == [hook EXCEPT !.error = <<message>>]

\* getStats of the hook: the counts over the cached todos
useTodos_getStats(todos) ==
    LET completed == Len(onlyCompleted(todos))
    IN  [total |-> Len(todos), completed |-> completed,
         pending |-> Len(todos) - completed]

\* the effect of the instance: its first loadTodos
useTodos_mount(c, i) ==
    /\ ~hooks[i].mounted
    /\ OpFree(c)
    /\ hooks' = [hooks EXCEPT ![i] = [LoadingHook(@) EXCEPT !.mounted = TRUE]]
    /\ ops' = [ops EXCEPT ![c] = Reloading(InvokedOp(i, "loadTodos"))]
    /\ UNCHANGED <<storage, calls, now, nextId, budget, faults>>

\* refreshTodos up to the await of loadTodos
useTodos_refreshTodos(c, i) ==
    /\ hooks[i].mounted
    /\ OpFree(c)
    /\ budget > 0
    /\ budget' = budget - 1
    /\ hooks' = [hooks EXCEPT ![i] = LoadingHook(@)]
    /\ ops' = [ops EXCEPT ![c] = Reloading(InvokedOp(i, "refreshTodos"))]
    /\ UNCHANGED <<storage, calls, now, nextId, faults>>

useTodos_createTodo(c, i, data) ==
    /\ hooks[i].mounted
    /\ OpFree(c)
    /\ createTodo_begin(c, data)
    /\ hooks' = [hooks EXCEPT ![i].error = NoError]
    /\ ops' = [ops EXCEPT ![c] = Delegating(i, "createTodo")]

useTodos_updateTodo(c, i, id, updates) ==
    /\ hooks[i].mounted
    /\ OpFree(c)
    /\ updateTodo_begin(c, id, updates)
    /\ hooks' = [hooks EXCEPT ![i].error = NoError]
    /\ ops' = [ops EXCEPT ![c] = Delegating(i, "updateTodo")]

useTodos_toggleTodo(c, i, id) ==
    /\ hooks[i].mounted
    /\ OpFree(c)
    /\ toggleTodo_begin(c, id)
    /\ hooks' = [hooks EXCEPT ![i].error = NoError]
    /\ ops' = [ops EXCEPT ![c] = Delegating(i, "toggleTodo")]

useTodos_deleteTodo(c, i, id) ==
    /\ hooks[i].mounted
    /\ OpFree(c)
    /\ deleteTodo_begin(c, id)
    /\ hooks' = [hooks EXCEPT ![i].error = NoError]
    /\ ops' = [ops EXCEPT ![c] = Delegating(i, "deleteTodo")]

useTodos_deleteCompleted(c, i) ==
    /\ hooks[i].mounted
    /\ OpFree(c)
    /\ deleteCompleted_begin(c)
    /\ hooks' = [hooks EXCEPT ![i].error = NoError]
    /\ ops' = [ops EXCEPT ![c] = Delegating(i, "deleteCompleted")]

Caught_ignoresFalse(op, result) ==
    IF result.kind = "error" THEN <<result.message>> ELSE <<>>

\* what the wrapper catches after the service call settled with result: the
\* error the service threw, or the wrapper's own 'Todo not found' when
\* deleteTodo returned false; none when it goes on
Caught(op, result) ==
    IF result.kind = "error" THEN <<result.message>>
    ELSE IF op = "deleteTodo" /\ result.value = FALSE THEN <<"Todo not found">>
    ELSE <<>>

\* a mutation wrapper after the await of the service call: the catch block,
\* which records the message and throws the error again, or loadTodos up to
\* its await
useTodos_delegated(c) ==
    /\ ops[c].pc = "service"
    /\ calls[c].pc = "done"
    /\ LET i == ops[c].hook
           caught == Caught(ops[c].op, calls[c].result)
       IN  IF caught # <<>>
           THEN /\ hooks' = [hooks EXCEPT ![i] = Recorded(@, caught[1])]
                /\ ops' = [ops EXCEPT ![c] =
                      [@ EXCEPT !.pc = "done",
                                !.steps = Append(@, "record"),
                                !.result = Thrown(caught[1])]]
           ELSE /\ hooks' = [hooks EXCEPT ![i] = LoadingHook(@)]
                /\ ops' = [ops EXCEPT ![c] = Reloading(@)]
    /\ UNCHANGED <<storage, calls, now, nextId, budget, faults>>

\* loadTodos after its await: setTodos, or the catch block, which records the
\* message and throws nothing; then setLoading(false), and the operation that
\* awaited loadTodos returns
useTodos_loaded(c) ==
    /\ ops[c].pc = "reload"
    /\ LET i == ops[c].hook
           loadedTodos ==
               IF hooks[i].filters = NoFilters
               THEN Returned(ops[c].loaded)
               ELSE getFilteredTodos(ops[c].loaded, hooks[i].filters[1])
       IN  IF loadedTodos.kind = "ok"
           THEN /\ hooks' = [hooks EXCEPT ![i] =
                      [Cached(@, loadedTodos.value) EXCEPT
                          !.loading = FALSE]]
                /\ ops' = [ops EXCEPT ![c] =
                      [@ EXCEPT !.pc = "done", !.loaded = <<>>,
                                !.steps = Append(@, "loaded"),
                                !.result = Returned("undefined")]]
           ELSE /\ hooks' = [hooks EXCEPT ![i] =
                      [Recorded(@, loadedTodos.message) EXCEPT
                          !.loading = FALSE]]
                /\ ops' = [ops EXCEPT ![c] =
                      [@ EXCEPT !.pc = "done", !.loaded = <<>>,
                                !.steps = Append(@, "load failed"),
                                !.result = Returned("undefined")]]
    /\ UNCHANGED <<storage, calls, now, nextId, budget, faults>>

----------------------------------------------------------------------------
(* The specifications. *)

\* the callers of the sequential specification: one, which awaits each call
\* before it makes the next
SequentialCallers == {1}

Next ==
    \E c \in SequentialCallers :
        \/ \E data \in CreateInputs : createTodo_call(c, data)
        \/ createTodo_push(c)
        \/ \E id \in IdArgs, updates \in UpdateInputs : updateTodo_call(c, id, updates)
        \/ updateTodo_merge(c)
        \/ \E id \in IdArgs : toggleTodo_call(c, id)
        \/ toggleTodo_find(c)
        \/ \E id \in IdArgs : deleteTodo_call(c, id)
        \/ deleteTodo_filter(c)
        \/ deleteCompleted_call(c)
        \/ deleteCompleted_filter(c)

\* calls made one after the other
Spec == Init /\ [][Next]_vars

NextOverlapping ==
    \E c \in Callers :
        \/ \E data \in CreateInputs : createTodo_call(c, data)
        \/ createTodo_push(c)
        \/ \E id \in IdArgs, updates \in UpdateInputs : updateTodo_call(c, id, updates)
        \/ updateTodo_merge(c)
        \/ \E id \in IdArgs : toggleTodo_call(c, id)
        \/ toggleTodo_find(c)
        \/ \E id \in IdArgs : deleteTodo_call(c, id)
        \/ deleteTodo_filter(c)
        \/ deleteCompleted_call(c)
        \/ deleteCompleted_filter(c)

InitOverlapping ==
    /\ storage = AbsentEntry
    /\ calls = [c \in Callers |-> IdleCall]
    /\ now = 0
    /\ nextId = 1
    /\ budget = MaxOverlappingCalls
    /\ faults = {}
    /\ hooks = [i \in Instances |-> NewHook]
    /\ ops = [c \in Callers |-> IdleOp]

\* calls of two callers, each free to call while the other's call is in flight
SpecOverlapping == InitOverlapping /\ [][NextOverlapping]_vars

\* how many calls the caller of the specification with queries makes
MaxQueryCalls == 4

\* titles and descriptions a query can find within
SearchableInputs ==
    { [title |-> <<"a", "B">>],
      [title |-> <<"B">>, description |-> <<"b", "A">>] }

\* the values of TodoFilters the callers pass
FilterInputs ==
    { EmptyObject,
      [completed |-> TRUE],
      [completed |-> FALSE, searchQuery |-> <<"A">>],
      [searchQuery |-> <<"a", "b">>],
      [searchQuery |-> <<"b", "a">>],
      [searchQuery |-> <<>>] }

InitQueries ==
    /\ storage = AbsentEntry
    /\ calls = [c \in Callers |-> IdleCall]
    /\ now = 0
    /\ nextId = 1
    /\ budget = MaxQueryCalls
    /\ faults = {}
    /\ hooks = [i \in Instances |-> NewHook]
    /\ ops = [c \in Callers |-> IdleOp]

NextQueries ==
    \E c \in SequentialCallers :
        \/ \E data \in SearchableInputs : createTodo_call(c, data)
        \/ createTodo_push(c)
        \/ \E id \in IdArgs : updateTodo_call(c, id, [description |-> <<"A">>])
        \/ updateTodo_merge(c)
        \/ \E id \in IdArgs : toggleTodo_call(c, id)
        \/ toggleTodo_find(c)
        \/ \E id \in IdArgs : deleteTodo_call(c, id)
        \/ deleteTodo_filter(c)
        \/ deleteCompleted_call(c)
        \/ deleteCompleted_filter(c)
        \/ getAllTodos_call(c)
        \/ \E filters \in FilterInputs : getFilteredTodos_call(c, filters)
        \/ getFilteredTodos_filter(c)
        \/ getStats_call(c)
        \/ getStats_count(c)

\* mutations and queries made one after the other
SpecQueries == InitQueries /\ [][NextQueries]_vars

\* how many calls the caller makes while localStorage may fail
MaxFaultCalls == 3

\* the accesses to localStorage that can throw
Accesses == {"getItem", "setItem"}

InitFaults ==
    /\ storage = AbsentEntry
    /\ calls = [c \in Callers |-> IdleCall]
    /\ now = 0
    /\ nextId = 1
    /\ budget = MaxFaultCalls
    /\ faults = {}
    /\ hooks = [i \in Instances |-> NewHook]
    /\ ops = [c \in Callers |-> IdleOp]

NextFaults ==
    \/ \E c \in SequentialCallers :
        \/ \E data \in SearchableInputs : createTodo_call(c, data)
        \/ createTodo_push(c)
        \/ \E id \in IdArgs : updateTodo_call(c, id, [description |-> <<"A">>])
        \/ updateTodo_merge(c)
        \/ \E id \in IdArgs : toggleTodo_call(c, id)
        \/ toggleTodo_find(c)
        \/ \E id \in IdArgs : deleteTodo_call(c, id)
        \/ deleteTodo_filter(c)
        \/ deleteCompleted_call(c)
        \/ deleteCompleted_filter(c)
        \/ getAllTodos_call(c)
    \/ \E f \in SUBSET Accesses : storageFault(f)
    \/ foreignWrite(CorruptEntry)

\* calls made one after the other while localStorage may throw and the entry
\* may be overwritten with text that does not parse
SpecFaults == InitFaults /\ [][NextFaults]_vars

\* how many operations the caller of a useTodos instance invokes
MaxAdapterCalls == 3

\* how many operations two callers of a useTodos instance invoke in all when
\* their operations may overlap
MaxOverlappingOps == 2

\* the instance the callers use
AdapterInstances == {1}

\* the filters the instance is constructed with
AdapterFilters == {NoFilters, <<[searchQuery |-> <<"a">>]>>}

\* the values the callers pass to the wrappers
AdapterCreateInputs == {[title |-> <<" ">>], [title |-> <<"a">>]}
AdapterUpdateInputs == {[completed |-> TRUE]}

\* an entry with a record that has no description: written by other code
MalformedEntry ==
    JsonEntry(<<[id |-> 0, title |-> <<"a">>, completed |-> FALSE,
                 createdAt |-> toISOString(0), updatedAt |-> toISOString(0)]>>)

InitAdapter ==
    /\ storage = AbsentEntry
    /\ calls = [c \in Callers |-> IdleCall]
    /\ now = 0
    /\ nextId = 1
    /\ budget = MaxAdapterCalls
    /\ faults = {}
    /\ \E f \in AdapterFilters :
          hooks = [i \in Instances |-> [NewHook EXCEPT !.filters = f]]
    /\ ops = [c \in Callers |-> IdleOp]

NextAdapter ==
    \/ \E c \in SequentialCallers, i \in AdapterInstances :
        \/ useTodos_mount(c, i)
        \/ useTodos_refreshTodos(c, i)
        \/ \E data \in AdapterCreateInputs : useTodos_createTodo(c, i, data)
        \/ \E id \in IdArgs, updates \in AdapterUpdateInputs :
              useTodos_updateTodo(c, i, id, updates)
        \/ \E id \in IdArgs : useTodos_toggleTodo(c, i, id)
        \/ \E id \in IdArgs : useTodos_deleteTodo(c, i, id)
        \/ useTodos_deleteCompleted(c, i)
    \/ \E c \in SequentialCallers :
        \/ createTodo_push(c)
        \/ updateTodo_merge(c)
        \/ toggleTodo_find(c)
        \/ deleteTodo_filter(c)
        \/ deleteCompleted_filter(c)
        \/ useTodos_delegated(c)
        \/ useTodos_loaded(c)
    \/ foreignWrite(MalformedEntry)

\* the operations of one useTodos instance, invoked one after the other
SpecAdapter == InitAdapter /\ [][NextAdapter]_vars

\* the run loop runs every continuation that is ready: the segments after an
\* await of the service and of useTodos
Continuations ==
    \A c \in SequentialCallers :
        /\ WF_vars(createTodo_push(c))
        /\ WF_vars(updateTodo_merge(c))
        /\ WF_vars(toggleTodo_find(c))
        /\ WF_vars(deleteTodo_filter(c))
        /\ WF_vars(deleteCompleted_filter(c))
        /\ WF_vars(useTodos_delegated(c))
        /\ WF_vars(useTodos_loaded(c))

\* the operations of one useTodos instance, invoked one after the other, with
\* every continuation run
SpecAdapterFair == InitAdapter /\ [][NextAdapter]_vars /\ Continuations

InitAdapterOverlapping ==
    /\ storage = AbsentEntry
    /\ calls = [c \in Callers |-> IdleCall]
    /\ now = 0
    /\ nextId = 1
    /\ budget = MaxOverlappingOps
    /\ faults = {}
    /\ \E f \in AdapterFilters :
          hooks = [i \in Instances |-> [NewHook EXCEPT !.filters = f]]
    /\ ops = [c \in Callers |-> IdleOp]

NextAdapterOverlapping ==
    \/ \E c \in Callers, i \in AdapterInstances :
        \/ useTodos_mount(c, i)
        \/ useTodos_refreshTodos(c, i)
        \/ \E data \in AdapterCreateInputs : useTodos_createTodo(c, i, data)
        \/ \E id \in IdArgs, updates \in AdapterUpdateInputs :
              useTodos_updateTodo(c, i, id, updates)
        \/ \E id \in IdArgs : useTodos_toggleTodo(c, i, id)
        \/ \E id \in IdArgs : useTodos_deleteTodo(c, i, id)
        \/ useTodos_deleteCompleted(c, i)
    \/ \E c \in Callers :
        \/ createTodo_push(c)
        \/ updateTodo_merge(c)
        \/ toggleTodo_find(c)
        \/ deleteTodo_filter(c)
        \/ deleteCompleted_filter(c)
        \/ useTodos_delegated(c)
        \/ useTodos_loaded(c)
    \/ foreignWrite(MalformedEntry)

\* the operations of one useTodos instance, each free to be invoked while
\* another is in flight
SpecAdapterOverlapping == InitAdapterOverlapping /\ [][NextAdapterOverlapping]_vars

\* how many operations the caller of two useTodos instances invokes
MaxInstanceCalls == 3

\* the filters the second of two instances is constructed with
SecondFilters == {NoFilters, <<[completed |-> FALSE]>>}

InitInstances ==
    /\ storage = AbsentEntry
    /\ calls = [c \in Callers |-> IdleCall]
    /\ now = 0
    /\ nextId = 1
    /\ budget = MaxInstanceCalls
    /\ faults = {}
    /\ \E f \in SecondFilters :
          hooks = [i \in Instances |->
                      IF i = 1 THEN NewHook ELSE [NewHook EXCEPT !.filters = f]]
    /\ ops = [c \in Callers |-> IdleOp]

NextInstances ==
    \/ \E c \in SequentialCallers, i \in Instances :
        \/ useTodos_mount(c, i)
        \/ useTodos_refreshTodos(c, i)
        \/ \E data \in AdapterCreateInputs : useTodos_createTodo(c, i, data)
        \/ \E id \in IdArgs, updates \in AdapterUpdateInputs :
              useTodos_updateTodo(c, i, id, updates)
        \/ \E id \in IdArgs : useTodos_toggleTodo(c, i, id)
        \/ \E id \in IdArgs : useTodos_deleteTodo(c, i, id)
        \/ useTodos_deleteCompleted(c, i)
    \/ \E c \in SequentialCallers :
        \/ createTodo_push(c)
        \/ updateTodo_merge(c)
        \/ toggleTodo_find(c)
        \/ deleteTodo_filter(c)
        \/ deleteCompleted_filter(c)
        \/ useTodos_delegated(c)
        \/ useTodos_loaded(c)

\* the operations of two useTodos instances over the one entry, invoked one
\* after the other
SpecInstances == InitInstances /\ [][NextInstances]_vars

\* the calls of the scenario, in their order: every step but the first is
\* made when the step before has settled
Scenario ==
    <<"create", "getStats", "toggle", "getStats", "create blank",
      "getAllTodos", "delete unused", "deleteCompleted", "getStats">>

\* the title "Buy milk"
BuyMilk == <<"B", "u", "y", " ", "m", "i", "l", "k">>

\* the values of CreateTodoData of the scenario's first create
ScenarioInputs ==
    { [title |-> BuyMilk],
      [title |-> BuyMilk, description |-> <<"a">>],
      [title |-> BuyMilk, description |-> <<" ", "a">>],
      [title |-> BuyMilk, description |-> <<"A">>],
      [title |-> BuyMilk, description |-> <<"b", " ">>] }

\* the whitespace-only titles of the scenario's second create
BlankInputs == { [title |-> <<" ">>], [title |-> <<" ", " ">>] }

\* the ids of the records that are persisted: the ids the caller has seen
UsedIds == {allTodos[k].id : k \in 1..Len(allTodos)}

\* how many calls of the scenario have been made
StepsMade == Len(Scenario) - budget

\* the call the scenario makes next is step
NextStep(step) == budget > 0 /\ Scenario[StepsMade + 1] = step

InitScenario ==
    /\ storage = AbsentEntry
    /\ calls = [c \in Callers |-> IdleCall]
    /\ now = 0
    /\ nextId = 1
    /\ budget = Len(Scenario)
    /\ faults = {}
    /\ hooks = [i \in Instances |-> NewHook]
    /\ ops = [c \in Callers |-> IdleOp]

NextScenario ==
    \E c \in SequentialCallers :
        \/ /\ NextStep("create")
           /\ \E data \in ScenarioInputs : createTodo_call(c, data)
        \/ /\ NextStep("create blank")
           /\ \E data \in BlankInputs : createTodo_call(c, data)
        \/ createTodo_push(c)
        \/ /\ NextStep("toggle")
           /\ \E id \in UsedIds : toggleTodo_call(c, id)
        \/ toggleTodo_find(c)
        \/ updateTodo_merge(c)
        \/ /\ NextStep("delete unused")
           /\ \E id \in IdArgs \ UsedIds : deleteTodo_call(c, id)
        \/ deleteTodo_filter(c)
        \/ /\ NextStep("deleteCompleted")
           /\ deleteCompleted_call(c)
        \/ deleteCompleted_filter(c)
        \/ /\ NextStep("getAllTodos")
           /\ getAllTodos_call(c)
        \/ /\ NextStep("getStats")
           /\ getStats_call(c)
        \/ getStats_count(c)

\* the scenario: create, toggle, a rejected create, a delete of an unused id
\* and deleteCompleted, with the statistics in between
SpecScenario == InitScenario /\ [][NextScenario]_vars

----------------------------------------------------------------------------
(* What the properties speak of. *)

\* the stored records of an entry, none when there is no entry
StoredData(entry) == IF entry.kind = "json" THEN entry.data ELSE <<>>

\* the ids of a collection
Ids(todos) == {todos[i].id : i \in 1..Len(todos)}

\* caller c's call has settled and was a call of op
Finished(c, op) == calls[c].pc = "done" /\ calls[c].op = op

\* the collection that was persisted when caller c made its call
Before(c) == getAllTodos(calls[c].pre)

\* the collection that is persisted
Persisted == getAllTodos(storage)

----------------------------------------------------------------------------
(* createTodo *)

\* C1: a createTodo whose title is empty or whitespace-only after trimming is
\* never past its validation: it has thrown the validation error without one
\* read or write of the entry, and the entry is what it was before the call.
C1_BlankTitleRejected ==
    \A c \in Callers :
        (calls[c].op = "create" /\ trim(calls[c].data.title) = <<>>) =>
            /\ calls[c].pc = "done"
            /\ calls[c].result.kind = "error"
            /\ calls[c].result.message = "Todo title is required"
            /\ calls[c].reads = 0
            /\ calls[c].writes = 0
            /\ storage = calls[c].pre

\* a whitespace-only title was rejected while a record is persisted
C1_Witness ==
    \E c \in Callers :
        /\ Finished(c, "create")
        /\ calls[c].data.title = <<" ", " ">>
        /\ calls[c].result.kind = "error"
        /\ Len(Persisted) >= 1

\* C2: a createTodo with a valid title returns a record with an id no record
\* had, the trimmed title, the trimmed description or the empty string when
\* there is none, completed = false and createdAt = updatedAt; the persisted
\* collection is then the previous one with that record appended as the last.
C2_CreateAppendsRecord ==
    \A c \in Callers :
        (Finished(c, "create") /\ trim(calls[c].data.title) # <<>>) =>
            /\ calls[c].result.kind = "ok"
            /\ LET r == calls[c].result.value
                   data == calls[c].data
               IN  /\ r.id \notin Ids(Before(c))
                   /\ r.title = trim(data.title)
                   /\ r.description =
                        IF "description" \in DOMAIN data
                        THEN trim(data.description) ELSE <<>>
                   /\ r.completed = FALSE
                   /\ r.createdAt = r.updatedAt
                   /\ storage.kind = "json"
                   /\ storage.data = Append(StoredData(calls[c].pre), toStorage(r))
                   /\ Persisted = Append(Before(c), r)

\* a title and a description that needed trimming were created after a record
C2_Witness ==
    \E c \in Callers :
        /\ Finished(c, "create")
        /\ calls[c].result.kind = "ok"
        /\ calls[c].data = [title |-> <<"B", " ">>, description |-> <<" ", "a", " ">>]
        /\ Len(Before(c)) = 1
        /\ Len(Persisted) = 2

----------------------------------------------------------------------------
(* updateTodo, toggleTodo *)

\* C3: an updateTodo that found its record has replaced it at its position by
\* a record that has the values of the fields the updates name, the previous
\* values of the others and the current time as updatedAt; the other records
\* are as they were, and the record returned is the record persisted.
C3_UpdateMergesInPlace ==
    \A c \in Callers :
        (/\ calls[c].pc = "done"
         /\ calls[c].op \in {"update", "toggle"}
         /\ calls[c].result.kind = "ok") =>
            LET r == calls[c].result.value
                updates == calls[c].data
            IN  /\ Len(Persisted) = Len(Before(c))
                /\ \E i \in 1..Len(Before(c)) :
                     /\ Before(c)[i].id = calls[c].id
                     /\ Persisted[i] = r
                     /\ \A j \in 1..Len(Before(c)) :
                          j # i => storage.data[j] = calls[c].pre.data[j]
                     /\ DOMAIN r = DOMAIN Before(c)[i]
                     /\ \A f \in DOMAIN r \ {"updatedAt"} :
                          r[f] = IF f \in DOMAIN updates
                                 THEN updates[f] ELSE Before(c)[i][f]
                     /\ r.updatedAt = now

\* the first of two records got a new title and description at a later time
C3_Witness ==
    \E c \in Callers :
        /\ Finished(c, "update")
        /\ calls[c].result.kind = "ok"
        /\ calls[c].data = [title |-> <<" ">>, description |-> <<"A">>]
        /\ Len(Persisted) = 2
        /\ Persisted[1].id = calls[c].id
        /\ Persisted[1].updatedAt > Before(c)[1].updatedAt
        /\ Persisted[1].title # Before(c)[1].title

\* C4: updateTodo and toggleTodo throw the not-found error exactly when no
\* record persisted at the call has the id, and then they have written nothing
\* and the entry is what it was.
C4_NotFoundIffAbsent ==
    \A c \in Callers :
        (calls[c].pc = "done" /\ calls[c].op \in {"update", "toggle"}) =>
            /\ (/\ calls[c].result.kind = "error"
                /\ calls[c].result.message = "Todo not found")
                    <=> calls[c].id \notin Ids(Before(c))
            /\ calls[c].result.kind = "error" =>
                    /\ calls[c].writes = 0
                    /\ storage = calls[c].pre

\* a toggle of an id no record has failed while another record is persisted
C4_Witness ==
    \E c \in Callers :
        /\ Finished(c, "toggle")
        /\ calls[c].result.kind = "error"
        /\ Len(Persisted) >= 1
        /\ calls[c].id \notin Ids(Persisted)

----------------------------------------------------------------------------
(* deleteTodo, deleteCompleted *)

\* C5: after deleteTodo(id) no persisted record has the id.  It returns true,
\* having written the collection without the record, when a record had the
\* id; otherwise it returns false, throws nothing, writes nothing and the
\* entry is what it was.
C5_DeleteRemovesId ==
    \A c \in Callers :
        Finished(c, "delete") =>
            /\ calls[c].id \notin Ids(Persisted)
            /\ calls[c].result.kind = "ok"
            /\ calls[c].result.value = (calls[c].id \in Ids(Before(c)))
            /\ calls[c].result.value =>
                    /\ calls[c].writes = 1
                    /\ storage.kind = "json"
                    /\ Persisted = SelectSeq(Before(c), LAMBDA t : t.id # calls[c].id)
            /\ ~calls[c].result.value =>
                    /\ calls[c].writes = 0
                    /\ storage = calls[c].pre

\* one of two records was deleted
C5_Witness ==
    \E c \in Callers :
        /\ Finished(c, "delete")
        /\ calls[c].result.kind = "ok"
        /\ calls[c].result.value
        /\ Len(Before(c)) = 2
        /\ Len(Persisted) = 1

\* C6: deleteCompleted removes the records with completed = true and no other,
\* returns how many they were, and leaves the others as they were and in
\* their order.
C6_DeleteCompletedRemovesCompleted ==
    \A c \in Callers :
        Finished(c, "deleteCompleted") =>
            /\ calls[c].result.kind = "ok"
            /\ calls[c].result.value =
                  Cardinality({i \in 1..Len(Before(c)) : Before(c)[i].completed})
            /\ Persisted = SelectSeq(Before(c), LAMBDA t : ~t.completed)
            /\ \A i \in 1..Len(Persisted) : ~Persisted[i].completed

\* of two records the completed one was removed and the other one stayed
C6_Witness ==
    \E c \in Callers :
        /\ Finished(c, "deleteCompleted")
        /\ calls[c].result.kind = "ok"
        /\ calls[c].result.value = 1
        /\ Len(Before(c)) = 2
        /\ Len(Persisted) = 1

----------------------------------------------------------------------------
(* Two toggles, the second called when the first has returned. *)

\* the record with the id in a collection that has one
RecordOf(todos, id) == todos[CHOOSE i \in 1..Len(todos) : todos[i].id = id]

\* caller c's call is a toggleTodo that returned, and the call it made before
\* was a toggleTodo of the same id that returned
ToggledTwice(c) ==
    /\ Finished(c, "toggle")
    /\ calls[c].result.kind = "ok"
    /\ calls[c].prev # <<>>
    /\ calls[c].prev[1].id = calls[c].id

\* the collection persisted before the first of the two toggles
BeforeFirst(c) == getAllTodos(calls[c].prev[1].pre)

\* the two toggles but for updatedAt: completed is flipped and flipped back,
\* the record's other fields and the other records are as they were
ToggledBack(c) ==
    LET r0 == RecordOf(BeforeFirst(c), calls[c].id)
        r1 == RecordOf(Before(c), calls[c].id)
        r2 == RecordOf(Persisted, calls[c].id)
    IN  /\ r1.completed = ~r0.completed
        /\ r2.completed = r0.completed
        /\ \A f \in DOMAIN r0 \ {"updatedAt"} : r2[f] = r0[f]
        /\ Len(Persisted) = Len(BeforeFirst(c))
        /\ \A i \in 1..Len(Persisted) :
             Persisted[i].id # calls[c].id => Persisted[i] = BeforeFirst(c)[i]

\* C7 as stated: two toggles in sequence restore completed, leave the rest as
\* it was, and each of them moves updatedAt forward.
C7_ToggleTwiceAdvancesUpdatedAt ==
    \A c \in Callers :
        ToggledTwice(c) =>
            /\ ToggledBack(c)
            /\ RecordOf(BeforeFirst(c), calls[c].id).updatedAt
                 < RecordOf(Before(c), calls[c].id).updatedAt
            /\ RecordOf(Before(c), calls[c].id).updatedAt
                 < RecordOf(Persisted, calls[c].id).updatedAt

\* C7, amended: two toggles in sequence restore completed and leave the rest
\* as it was; each of them sets updatedAt to the time the clock then shows,
\* which is never before the previous updatedAt and is the same value when
\* the clock has not advanced in between.
C7_ToggleTwiceRestoresCompleted ==
    \A c \in Callers :
        ToggledTwice(c) =>
            /\ ToggledBack(c)
            /\ RecordOf(BeforeFirst(c), calls[c].id).updatedAt
                 <= RecordOf(Before(c), calls[c].id).updatedAt
            /\ RecordOf(Before(c), calls[c].id).updatedAt
                 <= RecordOf(Persisted, calls[c].id).updatedAt
            /\ RecordOf(Persisted, calls[c].id).updatedAt = now

\* the second of two records was toggled twice, the clock advancing each time
C7_Witness ==
    \E c \in Callers :
        /\ ToggledTwice(c)
        /\ Len(Persisted) = 2
        /\ Persisted[2].id = calls[c].id
        /\ RecordOf(BeforeFirst(c), calls[c].id).updatedAt
             < RecordOf(Before(c), calls[c].id).updatedAt
        /\ RecordOf(Before(c), calls[c].id).updatedAt
             < RecordOf(Persisted, calls[c].id).updatedAt

----------------------------------------------------------------------------
(* The records of the entry, whatever the calls and however they overlap. *)

\* a call in flight holds a collection that is no longer the persisted one
StaleRead ==
    \E c \in Callers :
        /\ calls[c].pc \notin {"idle", "done"}
        /\ calls[c].todos # Persisted

\* C8: from the empty store on, whatever calls of create, update, toggle,
\* delete and deleteCompleted are made and however they interleave, no two
\* records of the entry have the same id.
C8_IdsUnique ==
    \A i, j \in 1..Len(StoredData(storage)) :
        i # j => StoredData(storage)[i].id # StoredData(storage)[j].id

\* two records are persisted while a call in flight holds a stale collection
C8_Witness ==
    /\ Len(StoredData(storage)) = 2
    /\ StaleRead

\* C9: every record of the entry has updatedAt >= createdAt.
C9_UpdatedNotBeforeCreated ==
    \A i \in 1..Len(StoredData(storage)) :
        parseDate(StoredData(storage)[i].updatedAt)
            >= parseDate(StoredData(storage)[i].createdAt)

\* a record was updated after the millisecond of its creation
C9_Witness ==
    \E i \in 1..Len(StoredData(storage)) :
        parseDate(StoredData(storage)[i].updatedAt)
            > parseDate(StoredData(storage)[i].createdAt)

\* caller c's updateTodo (toggleTodo's too) writes the entry in this step
UpdateWrites(c) ==
    /\ calls[c].pc = "update_merge"
    /\ calls'[c].pc = "done"
    /\ calls'[c].result.kind = "ok"

\* C10: a record keeps its id and its createdAt while it is in the entry: a
\* record that a step leaves in the entry has the createdAt it had, and a
\* write of updateTodo or toggleTodo leaves every record it read its id and
\* its createdAt, at its position.
C10_IdAndCreatedAtKept ==
    [][/\ \A i \in 1..Len(StoredData(storage)) :
            \A j \in 1..Len(StoredData(storage')) :
               StoredData(storage)[i].id = StoredData(storage')[j].id =>
                  StoredData(storage)[i].createdAt = StoredData(storage')[j].createdAt
       /\ \A c \in Callers :
            UpdateWrites(c) =>
               /\ Len(StoredData(storage')) = Len(calls[c].todos)
               /\ \A i \in 1..Len(calls[c].todos) :
                    /\ StoredData(storage')[i].id = calls[c].todos[i].id
                    /\ parseDate(StoredData(storage')[i].createdAt)
                         = calls[c].todos[i].createdAt
      ]_vars

\* an update has given a record new values and a later updatedAt
C10_Witness ==
    \E c \in Callers :
        /\ Finished(c, "update")
        /\ calls[c].result.kind = "ok"
        /\ calls[c].data = [title |-> <<" ">>, description |-> <<"A">>]
        /\ calls[c].result.value.updatedAt > calls[c].result.value.createdAt
        /\ \E i \in 1..Len(Persisted) : Persisted[i] = calls[c].result.value

----------------------------------------------------------------------------
(* The order and the titles of the records. *)

\* the position of the record with the id in stored records that have one
PositionOf(data, id) == CHOOSE i \in 1..Len(data) : data[i].id = id

\* C11: with calls made one after the other, two records that a step leaves
\* in the entry stay in their order, and a record that a step adds to the
\* entry is its last.
C11_OrderKept ==
    [][LET old == StoredData(storage)
           new == StoredData(storage')
       IN  /\ \A i, j \in 1..Len(old) :
                (/\ i < j
                 /\ old[i].id \in Ids(new)
                 /\ old[j].id \in Ids(new)) =>
                    PositionOf(new, old[i].id) < PositionOf(new, old[j].id)
           /\ \A k \in 1..Len(new) :
                new[k].id \notin Ids(old) => k = Len(new)
      ]_vars

\* a second record was created, and the first was updated since
C11_Witness ==
    /\ Len(Persisted) = 2
    /\ Persisted[1].id < Persisted[2].id
    /\ Persisted[1].updatedAt > Persisted[2].createdAt

\* C12 as stated: every record of the entry has a title that is not empty
\* after trimming.
C12_TitlesNotBlank ==
    \A i \in 1..Len(Persisted) : trim(Persisted[i].title) # <<>>

----------------------------------------------------------------------------
(* Failing storage. *)

\* C13: getAllTodos never fails its caller: every call of it returns; it
\* returns the empty sequence when there is no entry, when the entry does not
\* parse and when reading it throws; and the call leaves the entry as it is.
C13_GetAllTodosNeverFails ==
    [][\A c \in Callers :
          getAllTodos_call(c) =>
              /\ calls'[c].pc = "done"
              /\ calls'[c].result.kind = "ok"
              /\ storage.kind = "absent" => calls'[c].result.value = <<>>
              /\ storage.kind = "corrupt" => calls'[c].result.value = <<>>
              /\ "getItem" \in faults => calls'[c].result.value = <<>>
              /\ storage' = storage
     ]_vars

\* getAllTodos has returned [] for an entry that does not parse
C13_Witness ==
    \E c \in Callers :
        /\ Finished(c, "getAll")
        /\ calls[c].pre.kind = "corrupt"
        /\ calls[c].result = Returned(<<>>)

\* caller c's next segment hands a collection to saveTodos
WritePending(c) ==
    \/ calls[c].pc \in {"create_push", "completed_filter"}
    \/ /\ calls[c].pc \in {"update_merge", "delete_filter"}
       /\ calls[c].id \in Ids(calls[c].todos)

\* C14: when setItem throws in a createTodo, an updateTodo, a toggleTodo, a
\* deleteTodo of a persisted id or a deleteCompleted, the call throws to its
\* caller, it has written nothing, and the entry stays what it was.
C14_RejectedWriteFails ==
    [][\A c \in Callers :
          (WritePending(c) /\ "setItem" \in faults /\ calls'[c] # calls[c]) =>
              /\ calls'[c].pc = "done"
              /\ calls'[c].result.kind = "error"
              /\ calls'[c].writes = 0
              /\ storage' = storage
     ]_vars

\* a toggleTodo of a persisted record has failed on its write
C14_Witness ==
    \E c \in Callers :
        /\ Finished(c, "toggle")
        /\ calls[c].result = Thrown("Failed to save todos")
        /\ calls[c].id \in Ids(Persisted)

----------------------------------------------------------------------------
(* Queries. *)

\* two characters are the same letter, whatever their case
SameLetter(x, y) == x = y \/ {x, y} = {"a", "A"} \/ {x, y} = {"b", "B"}

\* q occurs in s as a substring, whatever the case of the letters
Occurs(q, s) ==
    \E k \in 0..(Len(s) - Len(q)) :
        \A n \in 1..Len(q) : SameLetter(q[n], s[k + n])

\* a record satisfies the constraints that criteria specifies
Satisfies(todo, criteria) ==
    /\ "completed" \in DOMAIN criteria => todo.completed = criteria.completed
    /\ "searchQuery" \in DOMAIN criteria =>
          \/ Occurs(criteria.searchQuery, todo.title)
          \/ Occurs(criteria.searchQuery, todo.description)

\* C15: getFilteredTodos(criteria) returns, in persisted order, exactly the
\* persisted records whose completed equals criteria.completed when that is
\* given and in whose title or description criteria.searchQuery occurs,
\* whatever the case, when that is given; it writes nothing and the entry is
\* what it was.
C15_FilterSelects ==
    \A c \in Callers :
        Finished(c, "getFiltered") =>
            /\ calls[c].result =
                  Returned(SelectSeq(Before(c),
                                     LAMBDA todo : Satisfies(todo, calls[c].data)))
            /\ calls[c].writes = 0
            /\ storage = calls[c].pre

\* a search in another case than the title's has kept one record of two
C15_Witness ==
    \E c \in Callers :
        /\ Finished(c, "getFiltered")
        /\ calls[c].data = [searchQuery |-> <<"a", "b">>]
        /\ Len(Before(c)) = 2
        /\ calls[c].result.kind = "ok"
        /\ Len(calls[c].result.value) = 1
        /\ calls[c].result.value[1].title = <<"a", "B">>

\* C16: getStats returns total = the number of persisted records, completed =
\* the number of them with completed = true and pending = total - completed,
\* none of them negative; it writes nothing and the entry is what it was.
C16_StatsCount ==
    \A c \in Callers :
        Finished(c, "getStats") =>
            LET todos == Before(c)
                done == Cardinality({i \in 1..Len(todos) : todos[i].completed})
                stats == calls[c].result.value
            IN  /\ calls[c].result.kind = "ok"
                /\ stats.total = Len(todos)
                /\ stats.completed = done
                /\ stats.pending = Len(todos) - done
                /\ stats.total = stats.completed + stats.pending
                /\ stats.total >= 0 /\ stats.completed >= 0 /\ stats.pending >= 0
                /\ calls[c].writes = 0
                /\ storage = calls[c].pre

\* getStats has counted one completed and one pending record
C16_Witness ==
    \E c \in Callers :
        /\ Finished(c, "getStats")
        /\ calls[c].result = Returned([total |-> 2, completed |-> 1, pending |-> 1])

----------------------------------------------------------------------------
(* useTodos *)

\* the operations of useTodos that change the collection
Mutations ==
    {"createTodo", "updateTodo", "toggleTodo", "deleteTodo", "deleteCompleted"}

\* caller c's operation was a mutation and has settled
FinishedOp(c) == ops[c].pc = "done" /\ ops[c].op \in Mutations

\* the service call of caller c's operation failed: it threw, or it was a
\* deleteTodo that returned false
DelegateFailed(c) ==
    \/ calls[c].result.kind = "error"
    \/ ops[c].op = "deleteTodo" /\ calls[c].result.value = FALSE

\* caller c's operation has started a reload
Reloaded(c) == \E n \in 1..Len(ops[c].steps) : ops[c].steps[n] = "reload"

\* the reload of caller c's operation failed
ReloadFailed(c) ==
    \E n \in 1..Len(ops[c].steps) : ops[c].steps[n] = "load failed"

\* the first steps of caller c's operation are: clear the error slot, call
\* the service, and reload unless the service call failed
StepsInOrder(c) ==
    /\ SubSeq(ops[c].steps, 1, 2) = <<"clear", "delegate">>
    /\ ops[c].steps[3] = IF DelegateFailed(c) THEN "record" ELSE "reload"

\* C18 as stated: a mutation of the adapter clears the error slot, calls the
\* service and reloads, in this order, and when one of the steps failed the
\* error slot holds the message and the operation has thrown that error.
C18_AnyFailureRaised ==
    \A c \in Callers :
        FinishedOp(c) =>
            /\ StepsInOrder(c)
            /\ (DelegateFailed(c) \/ ReloadFailed(c)) =>
                  /\ ops[c].result.kind = "error"
                  /\ hooks[ops[c].hook].error = <<ops[c].result.message>>

\* C18: a mutation of the adapter clears the error slot, calls the service and
\* reloads, in this order; when the service call failed the error slot holds
\* the message, the operation has thrown that error and it made no reload;
\* when the reload failed the error slot holds a message and the operation
\* has returned; when nothing failed the slot is empty and it has returned.
C18_DelegateFailureRaised ==
    \A c \in Callers :
        FinishedOp(c) =>
            /\ StepsInOrder(c)
            /\ DelegateFailed(c) =>
                  /\ ops[c].result.kind = "error"
                  /\ hooks[ops[c].hook].error = <<ops[c].result.message>>
                  /\ calls[c].result.kind = "error" =>
                        ops[c].result.message = calls[c].result.message
                  /\ ~Reloaded(c)
            /\ ReloadFailed(c) =>
                  /\ ops[c].result.kind = "ok"
                  /\ hooks[ops[c].hook].error # NoError
            /\ (~DelegateFailed(c) /\ ~ReloadFailed(c)) =>
                  /\ ops[c].result.kind = "ok"
                  /\ hooks[ops[c].hook].error = NoError

\* a createTodo of the adapter has returned although its reload failed
C18_Witness ==
    \E c \in Callers :
        /\ FinishedOp(c)
        /\ ops[c].op = "createTodo"
        /\ ops[c].steps = <<"clear", "delegate", "reload", "load failed">>
        /\ ops[c].result.kind = "ok"
        /\ hooks[ops[c].hook].error # NoError

\* a load of instance i is in flight, or its first load is still to start
LoadInFlight(i) ==
    \/ ~hooks[i].mounted
    \/ \E c \in Callers : ops[c].pc = "reload" /\ ops[c].hook = i

\* C19 as stated: the loading flag of an instance is true during its initial
\* load and while a reload is in flight, and false otherwise, also when
\* several operations of the instance are in flight.
C19_LoadingIffLoadInFlight ==
    \A i \in Instances : hooks[i].loading <=> LoadInFlight(i)

\* C20 as stated: a mutation invoked on an adapter that was Ready or Error
\* (not loading) has moved the adapter to Loading.
C20_MutationEntersLoading ==
    \A c \in Callers :
        (FinishedOp(c) /\ ~ops[c].from.loading) => Reloaded(c)

\* C20: a mutation invoked on an adapter that was Ready or Error leaves it not
\* loading, with an empty error slot, while the service call is in flight;
\* the adapter is Loading from the start of the reload, which starts only
\* when the service call has succeeded; and when the service call failed the
\* operation ends in Error without a reload.
C20_LoadingAfterServiceSuccess ==
    \A c \in Callers :
        (ops[c].op \in Mutations /\ ~ops[c].from.loading) =>
            LET hook == hooks[ops[c].hook]
            IN  /\ ops[c].pc = "service" =>
                      ~hook.loading /\ hook.error = NoError
                /\ ops[c].pc = "reload" =>
                      hook.loading /\ ~DelegateFailed(c)
                /\ ops[c].pc = "done" =>
                      /\ Reloaded(c) <=> ~DelegateFailed(c)
                      /\ DelegateFailed(c) =>
                            ~hook.loading /\ hook.error # NoError

\* a createTodo invoked on a Ready adapter with a blank title has ended in
\* Error without a reload
C20_Witness ==
    \E c \in Callers :
        /\ FinishedOp(c)
        /\ ops[c].op = "createTodo"
        /\ ops[c].from = [loading |-> FALSE, error |-> NoError]
        /\ ops[c].steps = <<"clear", "delegate", "record">>
        /\ hooks[ops[c].hook].error = <<"Todo title is required">>
        /\ ~hooks[ops[c].hook].loading

\* caller c's load finishes in this step
LoadFinishes(c) == ops[c].pc = "reload" /\ ops'[c].pc = "done"

\* the last step an operation has taken
LastStep(op) == op.steps[Len(op.steps)]

\* the collection a load of a hook shows of what it read: all of it, or the
\* records that satisfy the filters of the hook
Shown(hook, todos) ==
    IF hook.filters = NoFilters THEN todos
    ELSE SelectSeq(todos, LAMBDA todo : Satisfies(todo, hook.filters[1]))

\* C21: with operations invoked one after the other, a load that succeeds
\* leaves the adapter Ready (not loading, no error) with the cache set to the
\* collection it loaded, and a load that fails leaves it in Error (not
\* loading, the error slot filled) with the cache as it was.
C21_LoadSettles ==
    [][\A c \in Callers :
          LoadFinishes(c) =>
              LET old == hooks[ops[c].hook]
                  new == hooks'[ops[c].hook]
              IN  /\ old.loading
                  /\ ~new.loading
                  /\ LastStep(ops'[c]) = "loaded" =>
                        /\ new.todos = Shown(old, ops[c].loaded)
                        /\ new.error = NoError
                  /\ LastStep(ops'[c]) = "load failed" =>
                        /\ new.todos = old.todos
                        /\ new.error # NoError
                  /\ LastStep(ops'[c]) \in {"loaded", "load failed"}
     ]_vars

\* the first load of an instance has failed: its cache is empty and its error
\* slot is filled
C21_Witness ==
    \E c \in Callers :
        /\ ops[c].op = "loadTodos"
        /\ ops[c].steps = <<"reload", "load failed">>
        /\ hooks[ops[c].hook].todos = <<>>
        /\ hooks[ops[c].hook].error # NoError
        /\ ~hooks[ops[c].hook].loading

\* caller c invokes an operation on instance i in this step
AttemptStarts(c, i) ==
    /\ OpFree(c)
    /\ ops'[c].pc \notin {"idle", "done"}
    /\ ops'[c].hook = i

\* caller c's operation fails in this step: it throws, or its load fails
OpFails(c) ==
    /\ ops[c].pc \notin {"idle", "done"}
    /\ ops'[c].pc = "done"
    /\ LastStep(ops'[c]) \in {"record", "load failed"}

\* C22 as stated: the step in which an operation fails leaves its message in
\* the error slot, and a message in the error slot is replaced by the message
\* of a later failure or cleared by the start of the next operation attempt
\* only: no later step of an operation already in flight clears it.
C22_ErrorKeptUntilNextAttempt ==
    [][\A i \in Instances :
          /\ \A c \in Callers :
                (OpFails(c) /\ ops[c].hook = i) => hooks'[i].error # NoError
          /\ (hooks[i].error # NoError /\ hooks'[i].error = NoError) =>
                \E c \in Callers : AttemptStarts(c, i)
     ]_vars

----------------------------------------------------------------------------
(* Overlapping calls of the service. *)

\* the last calls of callers c and d are two createTodo that returned
BothCreated(c, d) ==
    /\ c # d
    /\ Finished(c, "create") /\ calls[c].result.kind = "ok"
    /\ Finished(d, "create") /\ calls[d].result.kind = "ok"

\* C23: two createTodo of two callers that overlap can lose a record with no
\* error reported; and when both have returned and the record of one is not
\* in the entry, the other had read a collection without that record.
C23_LostCreateWasNotRead ==
    \A c, d \in Callers :
        (BothCreated(c, d) /\ calls[c].result.value.id \notin Ids(Persisted)) =>
            calls[c].result.value.id \notin Ids(Before(d))

\* two createTodo read the same entry and both returned; the entry holds the
\* record of one of them only
C23_Witness ==
    \E c, d \in Callers :
        /\ BothCreated(c, d)
        /\ calls[c].pre = calls[d].pre
        /\ calls[c].result.value.id \notin Ids(Persisted)
        /\ calls[d].result.value.id \in Ids(Persisted)
        /\ Len(Persisted) = Len(Before(c)) + 1

----------------------------------------------------------------------------
(* The service against an atomic list. *)

\* The operations of an abstract list, each applied in one step: the list
\* after the operation and what the operation returns or throws.  The id and
\* the time of a create and the time of an update are the operation's choice.
AbsCreate(list, data, id, t) ==
    IF "title" \notin DOMAIN data \/ trim(data.title) = <<>>
    THEN [list |-> list, result |-> Thrown("Todo title is required")]
    ELSE LET todo == [id |-> id, title |-> trim(data.title),
                      description |-> IF "description" \in DOMAIN data
                                      THEN trim(data.description) ELSE <<>>,
                      completed |-> FALSE, createdAt |-> t, updatedAt |-> t]
         IN  [list |-> Append(list, todo), result |-> Returned(todo)]

AbsUpdate(list, id, updates, t) ==
    IF id \notin Ids(list)
    THEN [list |-> list, result |-> Thrown("Todo not found")]
    ELSE LET k == PositionOf(list, id)
             todo == [f \in DOMAIN list[k] \cup DOMAIN updates |->
                         IF f = "updatedAt" THEN t
                         ELSE IF f \in DOMAIN updates THEN updates[f]
                         ELSE list[k][f]]
         IN  [list |-> [list EXCEPT ![k] = todo], result |-> Returned(todo)]

AbsToggle(list, id, t) ==
    IF id \notin Ids(list)
    THEN [list |-> list, result |-> Thrown("Todo not found")]
    ELSE AbsUpdate(list, id,
                   [completed |-> ~list[PositionOf(list, id)].completed], t)

AbsDelete(list, id) ==
    [list |-> SelectSeq(list, LAMBDA todo : todo.id # id),
     result |-> Returned(id \in Ids(list))]

AbsDeleteCompleted(list) ==
    [list |-> SelectSeq(list, LAMBDA todo : ~todo.completed),
     result |-> Returned(Cardinality({k \in 1..Len(list) : list[k].completed}))]

\* the outcomes the abstract list allows for a call
AbsOutcomes(call, list) ==
    IF call.op = "create"
    THEN {AbsCreate(list, call.data, id, t) :
             id \in (1..(MaxIds + 1)) \ Ids(list), t \in 0..MaxClock}
    ELSE IF call.op = "update"
    THEN {AbsUpdate(list, call.id, call.data, t) : t \in 0..MaxClock}
    ELSE IF call.op = "toggle"
    THEN {AbsToggle(list, call.id, t) : t \in 0..MaxClock}
    ELSE IF call.op = "delete"
    THEN {AbsDelete(list, call.id)}
    ELSE {AbsDeleteCompleted(list)}

\* C24: with calls made one after the other, the entry is untouched while a
\* call is in flight, and when the call has settled the persisted collection
\* and the call's result are what the same operation gives on an atomic list
\* that held the collection persisted before the call.
C24_RefinesAtomicList ==
    \A c \in Callers :
        /\ calls[c].pc \notin {"idle", "done"} => storage = calls[c].pre
        /\ calls[c].pc = "done" =>
              [list |-> Persisted, result |-> calls[c].result]
                  \in AbsOutcomes(calls[c], Before(c))

\* a deleteCompleted has removed one record of two
C24_Witness ==
    \E c \in Callers :
        /\ Finished(c, "deleteCompleted")
        /\ calls[c].result = Returned(1)
        /\ Len(Before(c)) = 2
        /\ Len(Persisted) = 1

----------------------------------------------------------------------------
(* The cache of useTodos. *)

\* caller c's operation was a mutation or a refresh and has returned
Completed(c) ==
    /\ ops[c].pc = "done"
    /\ ops[c].op \in Mutations \cup {"refreshTodos"}
    /\ ops[c].result.kind = "ok"

\* no operation of a useTodos instance is in flight
NoneInFlight == \A c \in Callers : OpFree(c)

\* C25: when a mutation or a refresh of an instance has returned and no
\* operation is in flight, the cache of the instance is the persisted
\* collection, or its records that satisfy the filters of the instance, in
\* persisted order; and getStats of an instance without filters returns what
\* the service's getStats returns for the persisted collection.
C25_CacheIsPersisted ==
    \A c \in Callers :
        (Completed(c) /\ NoneInFlight) =>
            LET hook == hooks[ops[c].hook]
            IN  /\ hook.todos = Shown(hook, Persisted)
                /\ hook.filters = NoFilters =>
                      useTodos_getStats(hook.todos) = getStats(Persisted)

\* a toggleTodo of the instance with the filter completed = false has
\* returned: a record is persisted and the cache of the instance is empty
C25_Witness ==
    \E c \in Callers :
        /\ Completed(c)
        /\ ops[c].op = "toggleTodo"
        /\ hooks[ops[c].hook].filters = <<[completed |-> FALSE]>>
        /\ Len(Persisted) = 1
        /\ hooks[ops[c].hook].todos = <<>>

\* caller c's operation takes a step
OpSteps(c) == ops'[c] # ops[c] \/ calls'[c] # calls[c]

\* C28: a step of an operation of one instance leaves the state of the other
\* instance, its cache included, as it is, whatever it does to the entry; and
\* a load of an instance that succeeds sets its cache to the collection
\* persisted when it read, filtered by its filters if it has any.
C28_OtherCacheKept ==
    [][\A c \in Callers :
          OpSteps(c) =>
              /\ \A j \in Instances \ {ops'[c].hook} : hooks'[j] = hooks[j]
              /\ (LoadFinishes(c) /\ LastStep(ops'[c]) = "loaded") =>
                    hooks'[ops[c].hook].todos
                        = Shown(hooks[ops[c].hook], Persisted)
     ]_vars

\* a createTodo of the first instance has returned, and the second instance,
\* which has no filters and has loaded before, still shows an empty cache
C28_Witness ==
    \E c \in Callers :
        /\ Completed(c)
        /\ ops[c].op = "createTodo"
        /\ ops[c].hook = 1
        /\ hooks[2].mounted /\ ~hooks[2].loading
        /\ hooks[2].filters = NoFilters
        /\ hooks[1].todos = Persisted
        /\ hooks[2].todos = <<>>
        /\ Len(Persisted) = 1

----------------------------------------------------------------------------
(* The scenario. *)

\* the call of the scenario's step number k has settled and is the last made
Settles(k) == StepsMade = k /\ \A c \in SequentialCallers : calls[c].pc = "done"

\* what the caller's settled call returned or threw
Outcome == calls[1].result

\* C26: from the empty store, each step made when the one before has settled:
\* create {title: "Buy milk"} leaves 1 record, and getStats returns pending 1,
\* completed 0; toggleTodo of its id gives completed 1, pending 0; createTodo
\* with a whitespace-only title throws the validation error and 1 record
\* stays; deleteTodo of an unused id returns false and changes nothing;
\* deleteCompleted returns 1 and empties the collection, and getStats then
\* returns total 0, completed 0, pending 0.
C26_Scenario ==
    /\ Settles(1) =>
          /\ Outcome.kind = "ok"
          /\ Persisted = <<Outcome.value>>
          /\ Outcome.value.title = BuyMilk
    /\ Settles(2) =>
          Outcome = Returned([total |-> 1, completed |-> 0, pending |-> 1])
    /\ Settles(3) =>
          /\ Outcome.kind = "ok"
          /\ Len(Persisted) = 1
          /\ Persisted[1].completed
    /\ Settles(4) =>
          Outcome = Returned([total |-> 1, completed |-> 1, pending |-> 0])
    /\ Settles(5) =>
          /\ Outcome = Thrown("Todo title is required")
          /\ Len(Persisted) = 1
    /\ Settles(6) =>
          /\ Outcome.kind = "ok"
          /\ Len(Outcome.value) = 1
          /\ Outcome.value = Persisted
    /\ Settles(7) =>
          /\ Outcome = Returned(FALSE)
          /\ storage = calls[1].pre
          /\ Len(Persisted) = 1
    /\ Settles(8) =>
          /\ Outcome = Returned(1)
          /\ Persisted = <<>>
    /\ Settles(9) =>
          Outcome = Returned([total |-> 0, completed |-> 0, pending |-> 0])

\* the scenario's last getStats has settled
C26_Witness ==
    /\ Settles(9)
    /\ Finished(1, "getStats")
    /\ Outcome.kind = "ok"
    /\ storage = JsonEntry(<<>>)

----------------------------------------------------------------------------
(* Termination. *)

\* C27: with every continuation run, an operation of the adapter that was
\* invoked settles: it returns or it throws; and a load that was started sets
\* loading to false.
C27_OperationsSettle ==
    \A c \in Callers :
        /\ (ops[c].pc \notin {"idle", "done"}) ~>
              (ops[c].pc = "done" /\ ops[c].result.kind \in {"ok", "error"})
        /\ \A i \in Instances :
              (ops[c].pc = "reload" /\ ops[c].hook = i) ~> ~hooks[i].loading

\* a deleteCompleted of the adapter has run through its service call and its
\* reload and has returned
C27_Witness ==
    \E c \in Callers :
        /\ ops[c].op = "deleteCompleted"
        /\ ops[c].pc = "done"
        /\ ops[c].steps = <<"clear", "delegate", "reload", "loaded">>
        /\ ops[c].result.kind = "ok"
        /\ ~hooks[ops[c].hook].loading

----------------------------------------------------------------------------
(* deleteTodo of the adapter on an id that is not persisted. *)

\* caller c's operation is a deleteTodo of the adapter on an id that the
\* collection it read did not hold
DeletesAbsent(c) ==
    /\ ops[c].op = "deleteTodo"
    /\ ops[c].pc # "idle"
    /\ calls[c].op = "delete"
    /\ calls[c].id \notin Ids(getAllTodos(calls[c].pre))

\* C29: a deleteTodo of the adapter on an id that is not persisted fails: no
\* step of it changes the entry, the cache or the loading flag or starts a
\* reload, the service returns false without a write, and when it finishes
\* the error slot holds 'Todo not found' and the call has thrown that error.
C29_DeleteAbsentFails ==
    [][\A c \in Callers :
          (OpSteps(c) /\ DeletesAbsent(c)') =>
              LET i == ops'[c].hook
              IN  /\ storage' = storage
                  /\ hooks'[i].todos = hooks[i].todos
                  /\ hooks'[i].loading = hooks[i].loading
                  /\ ops'[c].pc \in {"service", "done"}
                  /\ \A k \in 1..Len(ops'[c].steps) :
                        ops'[c].steps[k] # "reload"
                  /\ calls'[c].writes = 0
                  /\ calls'[c].pc = "done" =>
                        calls'[c].result = Returned(FALSE)
                  /\ ops'[c].pc = "done" =>
                        /\ calls'[c].pc = "done"
                        /\ ops'[c].steps = <<"clear", "delegate", "record">>
                        /\ ops'[c].result = Thrown("Todo not found")
                        /\ hooks'[i].error = <<"Todo not found">>
     ]_vars

\* a deleteTodo of the adapter on an id that is not persisted has thrown, over
\* a cache and a collection that hold a todo
C29_Witness ==
    \E c \in Callers :
        /\ DeletesAbsent(c)
        /\ ops[c].pc = "done"
        /\ ops[c].result = Thrown("Todo not found")
        /\ hooks[ops[c].hook].error = <<"Todo not found">>
        /\ Len(Persisted) = 1
        /\ hooks[ops[c].hook].todos = Persisted

----------------------------------------------------------------------------
(* Calls over an entry that does not parse. *)

\* caller c's call settles in this step, and the entry did not parse when the
\* call was invoked
SettlesOverCorrupt(c) ==
    /\ calls'[c] # calls[c]
    /\ calls'[c].pc = "done"
    /\ calls'[c].pre.kind = "corrupt"

\* C30: a call made while the entry does not parse reads the collection as
\* empty. A createTodo that returns has overwritten the entry with exactly
\* the new record, a deleteCompleted that returns has overwritten it with the
\* empty collection and returns 0, and updateTodo and toggleTodo throw 'Todo
\* not found' and deleteTodo returns false, all three without a write.
C30_CorruptEntryReadsEmpty ==
    [][\A c \in Callers :
          SettlesOverCorrupt(c) =>
              LET call == calls'[c]
              IN  /\ (call.op = "create" /\ call.result.kind = "ok") =>
                        /\ call.writes = 1
                        /\ storage'.kind = "json"
                        /\ storage' = savedEntry(<<call.result.value>>)
                        /\ getAllTodos(storage') = <<call.result.value>>
                  /\ (call.op = "deleteCompleted" /\ call.result.kind = "ok") =>
                        /\ call.writes = 1
                        /\ call.result.value = 0
                        /\ storage' = JsonEntry(<<>>)
                        /\ getAllTodos(storage') = <<>>
                  /\ call.op \in {"update", "toggle"} =>
                        /\ call.result = Thrown("Todo not found")
                        /\ call.writes = 0
                        /\ storage' = storage
                  /\ call.op = "delete" =>
                        /\ call.result = Returned(FALSE)
                        /\ call.writes = 0
                        /\ storage' = storage
     ]_vars

\* over an entry that did not parse, a deleteCompleted has returned 0 and
\* left the empty collection persisted
C30_Witness ==
    \E c \in Callers :
        /\ calls[c].pc = "done"
        /\ calls[c].pre.kind = "corrupt"
        /\ calls[c].op = "deleteCompleted"
        /\ calls[c].result = Returned(0)
        /\ storage = JsonEntry(<<>>)


====
